---- MODULE Spec2Model ----
(***************************************************************************)
(* Model of packages/aws-rfdk/lib/deadline/lib/database-connection.ts:     *)
(* the abstract DatabaseConnection, its two Variants                       *)
(* (DocDBDatabaseConnection, MongoDbInstanceDatabaseConnection), the shell *)
(* text they add to a host's userData and the edges, rules, grants and     *)
(* annotations they add to the construct graph.                            *)
(***************************************************************************)
EXTENDS Integers, Sequences, FiniteSets, TLC

VARIABLES
    docdbConns,            \* the DocDBDatabaseConnection objects constructed (at most one)
    mongoConns,            \* the MongoDbInstanceDatabaseConnection objects constructed (at most one)
    userData,              \* host -> the commands added to host.userData, in order
    stackChildren,         \* stack -> the ids of the ScriptAsset children created under it
    dependencies,          \* the child.node.addDependency(target) calls made, in order
    vpcSecurityGroupIds,   \* CfnDBCluster.vpcSecurityGroupIds of the DocumentDB cluster
    mongoSecurityGroups,   \* groups handed to IMongoDb.addSecurityGroup, in order
    annotations,           \* Annotations.of(...).addError / addWarning calls, in order
    grants,                \* secret.grantRead(grantee) calls made
    connectionRules,       \* other.connections.allowTo(database, port) calls made
    lastCall,              \* the operation that ran last and whether it threw
    calls                  \* number of operations run so far

vars == << docdbConns, mongoConns, userData, stackChildren, dependencies,
           vpcSecurityGroupIds, mongoSecurityGroups, annotations, grants,
           connectionRules, lastCall, calls >>

----------------------------------------------------------------------------
(* Bounds of the model.                                                    *)

MaxCalls == 2

MaxVersionLen == 4

----------------------------------------------------------------------------
(* The environment: hosts, stacks, secrets, consumers.                     *)

LINUX == "LINUX"
WINDOWS == "WINDOWS"

Stacks == {"StackA", "StackB"}

Hosts == {"hostA", "hostB", "hostW"}

\* IHost.osType
osType(host) == IF host = "hostW" THEN WINDOWS ELSE LINUX

\* Stack.of(host)
StackOfHost(host) == IF host = "hostB" THEN "StackB" ELSE "StackA"

Children == {"child1", "child2"}

Grantees == {"role1"}

Peers == {"peer1"}

\* ISecurityGroup: securityGroupId is what is attached, node.id is what a warning lists
SG1 == [securityGroupId |-> "sg-1", nodeId |-> "SG1"]
SG2 == [securityGroupId |-> "sg-2", nodeId |-> "SG2"]

SecurityGroups == { SG1, SG2 }

\* the argument lists addSecurityGroup(...securityGroups) is called with
SecurityGroupArgs == { <<>>, <<SG1>>, <<SG1, SG2>>, <<SG2, SG1>> }

\* ISecret: secretArn and the region of its stack
LoginSecret == [secretArn |-> "arn:login", region |-> "us-west-2"]

ClientCertificate ==
    [ cert       |-> [secretArn |-> "arn:cert", region |-> "us-west-2"],
      passphrase |-> [secretArn |-> "arn:passphrase", region |-> "us-west-2"] ]

----------------------------------------------------------------------------
(* Strings whose content the code inspects are sequences of characters.    *)

StartsWith(s, prefix) ==
    /\ Len(s) >= Len(prefix)
    /\ SubSeq(s, 1, Len(prefix)) = prefix

VersionChars == {"3", "4", "5", "6", "0", "."}

RECURSIVE SeqsUpTo(_, _)
SeqsUpTo(S, n) ==
    IF n = 0 THEN { <<>> }
    ELSE LET shorter == SeqsUpTo(S, n - 1)
         IN  shorter \cup { Append(s, c) : s \in { t \in shorter : Len(t) = n - 1 }, c \in S }

VersionStrings == SeqsUpTo(VersionChars, MaxVersionLen) \ { <<>> }

V500 == <<"5", ".", "0", ".", "0">>

----------------------------------------------------------------------------
(* The databases a connection can be made for.                             *)
(* A DocumentDB cluster: whether it is an instance of DatabaseCluster, the *)
(* children of its node (id and type), and the engineVersion its default   *)
(* child carries (hasEngineVersion is FALSE when that property is          *)
(* undefined), and the vpcSecurityGroupIds its CfnDBCluster starts with    *)
(* (undefined, or the ids given when the cluster was made).                *)

Undefined == [defined |-> FALSE, ids |-> <<>>]
Defined(ids) == [defined |-> TRUE, ids |-> ids]

DocDBCluster(id, isCluster, children, hasVersion, version, groupIds) ==
    [ path |-> <<id>>, instanceofDatabaseCluster |-> isCluster,
      children |-> children, hasEngineVersion |-> hasVersion,
      engineVersion |-> version, vpcSecurityGroupIds |-> groupIds,
      hostname |-> "docdb.cluster.local", port |-> "27017" ]

CfnClusterChild == [id |-> "Resource", type |-> "CfnDBCluster"]
OtherResourceChild == [id |-> "Resource", type |-> "CfnResource"]
Instance1Child == [id |-> "Instance1", type |-> "CfnDBInstance"]

\* DatabaseCluster.fromDatabaseClusterAttributes: no children at all
ImportedCluster == DocDBCluster("ImportedDocDB", FALSE, {}, FALSE, <<>>, Undefined)

\* new DatabaseCluster(...) with the given engineVersion
InlineCluster(version, groupIds) ==
    DocDBCluster("DocDB", TRUE, {CfnClusterChild, Instance1Child}, TRUE, version, groupIds)

\* new DatabaseCluster(...) without an engineVersion
InlineClusterNoVersion ==
    DocDBCluster("DocDB", TRUE, {CfnClusterChild, Instance1Child}, FALSE, <<>>, Undefined)

\* a DatabaseCluster whose instance is no longer named 'Instance1'
InlineClusterRenamedInstance ==
    DocDBCluster("DocDB", TRUE, {CfnClusterChild}, TRUE, V500, Undefined)

\* a DatabaseCluster whose 'Resource' child is no CfnDBCluster
InlineClusterOtherResource ==
    DocDBCluster("DocDB", TRUE, {OtherResourceChild, Instance1Child}, FALSE, <<>>, Undefined)

DocDBDatabases ==
    { ImportedCluster, InlineCluster(V500, Undefined),
      InlineCluster(V500, Defined(<<"sg-0">>)), InlineClusterRenamedInstance,
      InlineClusterOtherResource }

VersionedDocDBDatabases ==
    { InlineCluster(v, Undefined) : v \in VersionStrings }
        \cup { ImportedCluster, InlineClusterNoVersion }

\* node.tryFindChild(id): the children with that id (none or one)
tryFindChild(node, id) == { c \in node.children : c.id = id }

\* node.defaultChild: the child named 'Resource' (none or one)
defaultChild(node) == tryFindChild(node, "Resource")

\* An IMongoDb: a MongoDbInstance (with its server and its data volume) or
\* an imported reference.
MongoDb(id, isInstance, hasServer, volumeIsVolume) ==
    [ path |-> <<id>>, instanceofMongoDbInstance |-> isInstance,
      hasServer |-> hasServer, volumeIsVolume |-> volumeIsVolume,
      fullHostname |-> "mongodb.renderfarm.local", port |-> "27017" ]

InlineMongoDb == MongoDb("MongoDb", TRUE, TRUE, TRUE)
InlineMongoDbImportedVolume == MongoDb("MongoDb", TRUE, TRUE, FALSE)
ImportedMongoDb == MongoDb("ImportedMongoDb", FALSE, FALSE, FALSE)

MongoDatabases == { InlineMongoDb, InlineMongoDbImportedVolume, ImportedMongoDb }

\* db.server.autoscalingGroup.node.defaultChild
AsgDefaultChild(db) == db.path \o <<"Server", "Asg", "ASG">>

\* db.mongoDataVolume
MongoDataVolume(db) == db.path \o <<"Volume">>

\* "no construct": databaseConstruct is undefined
NoConstruct == <<>>

----------------------------------------------------------------------------
(* Shell commands. A command of the generated text is a record: what it    *)
(* does (op), the function or variable it names (name), the secret it      *)
(* retrieves (secret, region), the variable and JSON field it extracts     *)
(* from (from, field), its array entries or arguments (entries, args:      *)
(* each value is a literal or, with ref, a reference to a shell variable), *)
(* whether the variable is exported, and the script asset it runs.         *)

Cmd(op, name) ==
    [ op |-> op, name |-> name, secret |-> "", region |-> "", from |-> "",
      field |-> "", entries |-> <<>>, args |-> <<>>, export |-> FALSE,
      script |-> <<>> ]

Lit(text) == [ref |-> FALSE, value |-> text]
Ref(var) == [ref |-> TRUE, value |-> var]
Entry(key, val) == [key |-> key, ref |-> val.ref, value |-> val.value]

\* 'name(){'
FuncOpen(name) == Cmd("funcOpen", name)

\* 'getJsonVal(){ python3 -c ... }'
DefGetJsonVal == Cmd("defHelper", "getJsonVal")

\* 'SET_X_IS_SET=$-'
CaptureTracing == Cmd("captureTracing", "SET_X_IS_SET")

\* '{ set +x; } 2>/dev/null'
TracingOff == Cmd("tracingOff", "")

\* '[export ]VAR=`aws secretsmanager get-secret-value --secret-id ARN --region R | getJsonVal 'SecretString'`'
Retrieve(var, secret, export) ==
    [ Cmd("retrieve", var) EXCEPT !.secret = secret.secretArn,
                                  !.region = secret.region,
                                  !.field = "SecretString",
                                  !.export = export ]

\* 'VAR=`printenv FROM | getJsonVal 'field'`'
Extract(var, from, field) ==
    [ Cmd("extract", var) EXCEPT !.from = from, !.field = field ]

\* 'unset VAR'
Unset(var) == Cmd("unset", var)

\* 'VAR=( ["key"]=value ... )'
SetArray(var, entries) == [ Cmd("setArray", var) EXCEPT !.entries = entries ]

\* 'sudo -u ec2-user "${deadlinecommand}" -StoreDatabasecredentials args'
StoreDatabaseCredentials(args) ==
    [ Cmd("exec", "deadlinecommand -StoreDatabasecredentials") EXCEPT !.args = args ]

\* 'export VAR="literal"'
ExportLiteral(var, text) ==
    [ Cmd("assign", var) EXCEPT !.args = << Lit(text) >>, !.export = TRUE ]

\* 'if [[ $SET_X_IS_SET =~ x ]]; then set -x; else set +x; fi'
RestoreTracing == Cmd("restoreTracing", "SET_X_IS_SET")

\* '}'
FuncClose == Cmd("funcClose", "")

\* 'export -f name'
ExportFunc(name) == Cmd("exportFunc", name)

\* the invocation of a script asset with its arguments
ExecuteScript(scriptId, args) ==
    [ Cmd("executeScript", "getSecretToFile") EXCEPT !.script = scriptId,
                                                     !.args = args ]

----------------------------------------------------------------------------
(* DocDBDatabaseConnection                                                 *)

\* isCompatibleDocDBVersion(): with a default child, engineVersion must
\* start with '3.6', '4.0' or '5.0' (undefined: false); without one, true
isCompatibleDocDBVersion(database) ==
    IF defaultChild(database) # {}
    THEN /\ database.hasEngineVersion
         /\ \/ StartsWith(database.engineVersion, <<"3", ".", "6">>)
            \/ StartsWith(database.engineVersion, <<"4", ".", "0">>)
            \/ StartsWith(database.engineVersion, <<"5", ".", "0">>)
    ELSE TRUE

Diagnostic(level, scope, message, groups, reasons) ==
    [ level |-> level, scope |-> scope, message |-> message,
      groups |-> groups, reasons |-> reasons ]

EngineVersionError(database) ==
    Diagnostic("error", database.path,
               "engineVersion must be one of 3.6.0, 4.0.0 or 5.0.0 to be compatible with Deadline",
               <<>>, <<>>)

\* the object the constructor builds
DocDBDatabaseConnection(props) ==
    [ props |-> props,
      containerEnvironment |-> [DB_CREDENTIALS_URI |-> props.login.secretArn],
      databaseConstruct |-> IF props.database.instanceofDatabaseCluster
                            THEN props.database.path
                            ELSE NoConstruct ]

Call(op, variant, arg, threw) ==
    [ op |-> op, variant |-> variant, arg |-> arg, threw |-> threw ]

\* DatabaseConnection.forDocDB(options) / the constructor
forDocDB(options) ==
    /\ docdbConns = {}
    /\ docdbConns' = { DocDBDatabaseConnection(options) }
    /\ annotations' = IF ~isCompatibleDocDBVersion(options.database)
                      THEN Append(annotations, EngineVersionError(options.database))
                      ELSE annotations
    \* from here on vpcSecurityGroupIds is that of the CfnDBCluster of the cluster passed in
    /\ vpcSecurityGroupIds' = options.database.vpcSecurityGroupIds
    /\ lastCall' = Call("forDocDB", "DocDB", <<>>, FALSE)
    /\ UNCHANGED << mongoConns, userData, stackChildren, dependencies,
                    mongoSecurityGroups, grants, connectionRules, calls >>

\* mutant: the '--dbtype' entry is left out of INSTALLER_DB_ARGS
DocDBInstallerCommands_NoDbType(props) ==
    << FuncOpen("configure_database_installation_args"),
       DefGetJsonVal,
       CaptureTracing,
       TracingOff,
       Retrieve("SECRET_STRING", props.login, TRUE),
       Extract("DB_USERNAME", "SECRET_STRING", "username"),
       Extract("DB_PASSWORD", "SECRET_STRING", "password"),
       Unset("SECRET_STRING"),
       SetArray("INSTALLER_DB_ARGS",
                << Entry("--dbuser", Ref("DB_USERNAME")),
                   Entry("--dbpassword", Ref("DB_PASSWORD")),
                   Entry("--dbhost", Lit(props.database.hostname)),
                   Entry("--dbport", Lit(props.database.port)) >>),
       Unset("DB_USERNAME"),
       Unset("DB_PASSWORD"),
       RestoreTracing,
       FuncClose,
       ExportFunc("configure_database_installation_args") >>

\* the commands addInstallerDBArgs adds
DocDBInstallerCommands(props) ==
    << FuncOpen("configure_database_installation_args"),
       DefGetJsonVal,
       CaptureTracing,
       TracingOff,
       Retrieve("SECRET_STRING", props.login, TRUE),
       Extract("DB_USERNAME", "SECRET_STRING", "username"),
       Extract("DB_PASSWORD", "SECRET_STRING", "password"),
       Unset("SECRET_STRING"),
       SetArray("INSTALLER_DB_ARGS",
                << Entry("--dbuser", Ref("DB_USERNAME")),
                   Entry("--dbpassword", Ref("DB_PASSWORD")),
                   Entry("--dbhost", Lit(props.database.hostname)),
                   Entry("--dbport", Lit(props.database.port)),
                   Entry("--dbtype", Lit("DocumentDB")) >>),
       Unset("DB_USERNAME"),
       Unset("DB_PASSWORD"),
       RestoreTracing,
       FuncClose,
       ExportFunc("configure_database_installation_args") >>

\* mutant: DB_PASSWORD is never unset
DocDBConnectionCommands_KeepsPassword(props) ==
    << FuncOpen("configure_deadline_database"),
       DefGetJsonVal,
       CaptureTracing,
       TracingOff,
       Retrieve("SECRET_STRING", props.login, TRUE),
       Extract("DB_USERNAME", "SECRET_STRING", "username"),
       Extract("DB_PASSWORD", "SECRET_STRING", "password"),
       Unset("SECRET_STRING"),
       StoreDatabaseCredentials(<< Ref("DB_USERNAME"), Ref("DB_PASSWORD") >>),
       Unset("DB_USERNAME"),
       RestoreTracing,
       FuncClose,
       ExportFunc("configure_deadline_database") >>

\* the commands addConnectionDBArgs adds
DocDBConnectionCommands(props) ==
    << FuncOpen("configure_deadline_database"),
       DefGetJsonVal,
       CaptureTracing,
       TracingOff,
       Retrieve("SECRET_STRING", props.login, TRUE),
       Extract("DB_USERNAME", "SECRET_STRING", "username"),
       Extract("DB_PASSWORD", "SECRET_STRING", "password"),
       Unset("SECRET_STRING"),
       StoreDatabaseCredentials(<< Ref("DB_USERNAME"), Ref("DB_PASSWORD") >>),
       Unset("DB_USERNAME"),
       Unset("DB_PASSWORD"),
       RestoreTracing,
       FuncClose,
       ExportFunc("configure_deadline_database") >>

\* host.userData.addCommands(...commands)
addCommands(data, host, commands) ==
    [data EXCEPT ![host] = @ \o commands]

\* an operation that throws leaves everything as it was
Throws(op, variant, arg) ==
    /\ lastCall' = Call(op, variant, arg, TRUE)
    /\ calls' = calls + 1
    /\ UNCHANGED << docdbConns, mongoConns, userData, stackChildren, dependencies,
                    vpcSecurityGroupIds, mongoSecurityGroups, annotations,
                    grants, connectionRules >>

Returns(op, variant, arg) ==
    /\ lastCall' = Call(op, variant, arg, FALSE)
    /\ calls' = calls + 1

DocDBAddInstallerDBArgs(conn, host) ==
    /\ calls < MaxCalls
    /\ IF osType(host) # LINUX
       THEN Throws("addInstallerDBArgs", "DocDB", <<host>>)
       ELSE /\ userData' = addCommands(userData, host, DocDBInstallerCommands(conn.props))
            /\ Returns("addInstallerDBArgs", "DocDB", <<host>>)
            /\ UNCHANGED << docdbConns, mongoConns, stackChildren, dependencies,
                            vpcSecurityGroupIds, mongoSecurityGroups,
                            annotations, grants, connectionRules >>

DocDBAddConnectionDBArgs(conn, host) ==
    /\ calls < MaxCalls
    /\ IF osType(host) # LINUX
       THEN Throws("addConnectionDBArgs", "DocDB", <<host>>)
       ELSE /\ userData' = addCommands(userData, host, DocDBConnectionCommands(conn.props))
            /\ Returns("addConnectionDBArgs", "DocDB", <<host>>)
            /\ UNCHANGED << docdbConns, mongoConns, stackChildren, dependencies,
                            vpcSecurityGroupIds, mongoSecurityGroups,
                            annotations, grants, connectionRules >>

\* other.connections.allowTo(database, database.connections.defaultPort)
DocDBAllowConnectionsFrom(conn, other) ==
    /\ calls < MaxCalls
    /\ connectionRules' = connectionRules \cup
           { [peer |-> other, database |-> conn.props.database.path,
              port |-> "defaultPort"] }
    /\ Returns("allowConnectionsFrom", "DocDB", <<other>>)
    /\ UNCHANGED << docdbConns, mongoConns, userData, stackChildren, dependencies,
                    vpcSecurityGroupIds, mongoSecurityGroups, annotations, grants >>

\* this.props.login.grantRead(grantee)
DocDBGrantRead(conn, grantee) ==
    /\ calls < MaxCalls
    /\ grants' = grants \cup
           { [secret |-> conn.props.login.secretArn, grantee |-> grantee] }
    /\ Returns("grantRead", "DocDB", <<grantee>>)
    /\ UNCHANGED << docdbConns, mongoConns, userData, stackChildren, dependencies,
                    vpcSecurityGroupIds, mongoSecurityGroups, annotations,
                    connectionRules >>

Dependency(child, target) == [child |-> child, target |-> target]

\* mutant: the dependency is taken on the cluster itself
DocDBInstance_Cluster(database) == database.path

\* the CfnDBInstance found under the cluster
DocDBInstance(database) == database.path \o <<"Instance1">>

\* mutant: a missing 'Instance1' is always taken for an imported cluster
DocDBAddChildDependency_Silent(conn, child) ==
    /\ calls < MaxCalls
    /\ dependencies' =
           IF tryFindChild(conn.props.database, "Instance1") # {}
           THEN Append(dependencies,
                       Dependency(child, DocDBInstance(conn.props.database)))
           ELSE dependencies
    /\ Returns("addChildDependency", "DocDB", <<child>>)
    /\ UNCHANGED << docdbConns, mongoConns, userData, stackChildren,
                    vpcSecurityGroupIds, mongoSecurityGroups, annotations,
                    grants, connectionRules >>

DocDBAddChildDependency(conn, child) ==
    /\ calls < MaxCalls
    /\ LET database == conn.props.database
           docdbInstance == tryFindChild(database, "Instance1")
       IN  IF docdbInstance # {}
           THEN /\ dependencies' =
                       Append(dependencies, Dependency(child, DocDBInstance(database)))
                /\ Returns("addChildDependency", "DocDB", <<child>>)
                /\ UNCHANGED << docdbConns, mongoConns, userData, stackChildren,
                                vpcSecurityGroupIds, mongoSecurityGroups,
                                annotations, grants, connectionRules >>
           ELSE IF defaultChild(database) # {}
           THEN Throws("addChildDependency", "DocDB", <<child>>)
           ELSE /\ Returns("addChildDependency", "DocDB", <<child>>)
                /\ UNCHANGED << docdbConns, mongoConns, userData, stackChildren,
                                dependencies, vpcSecurityGroupIds,
                                mongoSecurityGroups, annotations, grants,
                                connectionRules >>

\* securityGroups.map(sg => sg.securityGroupId)
SecurityGroupIds(securityGroups) ==
    [ i \in 1..Len(securityGroups) |-> securityGroups[i].securityGroupId ]

\* mutant: the last group is left out of the warning
SecurityGroupNodeIds_DropLast(securityGroups) ==
    [ i \in 1..(Len(securityGroups) - 1) |-> securityGroups[i].nodeId ]

\* securityGroups.map(sg => sg.node.id), the list the warning joins with ', '
SecurityGroupNodeIds(securityGroups) ==
    [ i \in 1..Len(securityGroups) |-> securityGroups[i].nodeId ]

\* mutant: the ids are assigned whether or not the list is already there
AttachSecurityGroupIds_Overwrite(current, securityGroupIds) ==
    Defined(securityGroupIds)

\* what pushing the ids makes of cfnCluster.vpcSecurityGroupIds
AttachSecurityGroupIds(current, securityGroupIds) ==
    IF ~current.defined
    THEN Defined(securityGroupIds)
    ELSE Defined(current.ids \o securityGroupIds)

DocDBAddSecurityGroup(conn, securityGroups) ==
    /\ calls < MaxCalls
    /\ LET database == conn.props.database
           resource == tryFindChild(database, "Resource")
           isCfnDBCluster == \E r \in resource : r.type = "CfnDBCluster"
           added == database.instanceofDatabaseCluster /\ isCfnDBCluster
           errorReasons ==
               IF database.instanceofDatabaseCluster
               THEN IF isCfnDBCluster
                    THEN <<>>
                    ELSE << "The internal implementation of AWS CDK's DocumentDB cluster construct has changed." >>
               ELSE << "The \"database\" property passed to this class is not an instance of AWS CDK's DocumentDB cluster construct." >>
       IN  /\ vpcSecurityGroupIds' =
                 IF added
                 THEN AttachSecurityGroupIds(vpcSecurityGroupIds,
                                             SecurityGroupIds(securityGroups))
                 ELSE vpcSecurityGroupIds
           /\ annotations' =
                 IF ~added
                 THEN Append(annotations,
                             Diagnostic("warning", database.path,
                                        "Failed to add the following security groups",
                                        SecurityGroupNodeIds(securityGroups),
                                        errorReasons))
                 ELSE annotations
    /\ Returns("addSecurityGroup", "DocDB", securityGroups)
    /\ UNCHANGED << docdbConns, mongoConns, userData, stackChildren, dependencies,
                    mongoSecurityGroups, grants, connectionRules >>

----------------------------------------------------------------------------
(* MongoDbInstanceDatabaseConnection                                       *)

DB_CERT_LOCATION == "/opt/Thinkbox/certs/mongo_client.pfx"

\* mutant: databaseConstruct is the data volume of every MongoDbInstance,
\* whether or not that volume is a Volume
MongoDbInstanceDatabaseConnection_NoVolumeCheck(props) ==
    [ props |-> props,
      containerEnvironment |->
          [ DB_TLS_CLIENT_CERT_URI |-> props.clientCertificate.cert.secretArn,
            DB_TLS_CLIENT_CERT_PASSWORD_URI |->
                props.clientCertificate.passphrase.secretArn ],
      databaseConstruct |->
          IF props.database.instanceofMongoDbInstance
          THEN MongoDataVolume(props.database)
          ELSE NoConstruct ]

\* the object the constructor builds
MongoDbInstanceDatabaseConnection(props) ==
    [ props |-> props,
      containerEnvironment |->
          [ DB_TLS_CLIENT_CERT_URI |-> props.clientCertificate.cert.secretArn,
            DB_TLS_CLIENT_CERT_PASSWORD_URI |->
                props.clientCertificate.passphrase.secretArn ],
      databaseConstruct |->
          IF props.database.instanceofMongoDbInstance /\ props.database.volumeIsVolume
          THEN MongoDataVolume(props.database)
          ELSE NoConstruct ]

\* DatabaseConnection.forMongoDbInstance(options) / the constructor
forMongoDbInstance(options) ==
    /\ mongoConns = {}
    /\ mongoConns' = { MongoDbInstanceDatabaseConnection(options) }
    /\ lastCall' = Call("forMongoDbInstance", "MongoDbInstance", <<>>, FALSE)
    /\ UNCHANGED << docdbConns, userData, stackChildren, dependencies,
                    vpcSecurityGroupIds, mongoSecurityGroups, annotations,
                    grants, connectionRules, calls >>

\* the uuid of downloadCertificate, dashes included
Uuid == << "e8125dd2", "-", "ab2c", "-", "4861", "-", "8ee4", "-", "998c26b30ee0" >>

NotDash(part) == part # "-"

\* mutant: a fresh identifier for every call
UniqueId_Fresh(host) == << "GetSecretToFile", osType(host), ToString(calls) >>

\* 'GetSecretToFile' + host.osType + uuid.replace(/[-]/g, '')
UniqueId(host) == << "GetSecretToFile", osType(host) >> \o SelectSeq(Uuid, NotDash)

\* ScriptAsset.fromPathConvention(stack, uniqueId, {osType, baseName, rootDir}):
\* a new child of the stack under that id
fromPathConvention(children, stack, uniqueId, host) ==
    [ children EXCEPT ![stack] =
          @ \cup { [id |-> uniqueId, osType |-> osType(host),
                    baseName |-> "getSecretToFile"] } ]

\* getSecretsScript.executeOn({host, args}): the host runs the script with args
executeOn(data, script, host, args) ==
    addCommands(data, host, << ExecuteScript(script.id, args) >>)

\* stack.node.tryFindChild(uniqueId) ?? ScriptAsset.fromPathConvention(...)
GetSecretsScriptChildren(children, host) ==
    LET stack == StackOfHost(host)
        uniqueId == UniqueId(host)
    IN  IF \E c \in children[stack] : c.id = uniqueId
        THEN children
        ELSE fromPathConvention(children, stack, uniqueId, host)

\* mutant: the script is given its arguments in the wrong order
downloadCertificate_SwappedArgs(props, host) ==
    LET children == GetSecretsScriptChildren(stackChildren, host)
        getSecretsScript ==
            CHOOSE c \in children[StackOfHost(host)] : c.id = UniqueId(host)
    IN  [ stackChildren |-> children,
          userData |-> executeOn(userData, getSecretsScript, host,
                                 << Lit(DB_CERT_LOCATION),
                                    Lit(props.clientCertificate.cert.secretArn) >>) ]

\* downloadCertificate(host): the stack's children and the userData after it
downloadCertificate(props, host) ==
    LET children == GetSecretsScriptChildren(stackChildren, host)
        getSecretsScript ==
            CHOOSE c \in children[StackOfHost(host)] : c.id = UniqueId(host)
    IN  [ stackChildren |-> children,
          userData |-> executeOn(userData, getSecretsScript, host,
                                 << Lit(props.clientCertificate.cert.secretArn),
                                    Lit(DB_CERT_LOCATION) >>) ]

\* the commands addInstallerDBArgs adds after the download
MongoInstallerCommands(props) ==
    << FuncOpen("configure_database_installation_args"),
       DefGetJsonVal,
       CaptureTracing,
       TracingOff,
       Retrieve("CERT_PASSWORD", props.clientCertificate.passphrase, FALSE),
       SetArray("INSTALLER_DB_ARGS",
                << Entry("--dbssl", Lit("true")),
                   Entry("--dbauth", Lit("true")),
                   Entry("--dbsslauth", Lit("true")),
                   Entry("--dbhost", Lit(props.database.fullHostname)),
                   Entry("--dbport", Lit(props.database.port)),
                   Entry("--dbclientcert", Lit(DB_CERT_LOCATION)),
                   Entry("--dbcertpass", Ref("CERT_PASSWORD")) >>),
       Unset("CERT_PASSWORD"),
       RestoreTracing,
       FuncClose,
       ExportFunc("configure_database_installation_args") >>

\* mutant: tracing is restored before the passphrase is retrieved
MongoConnectionCommands_RestoreEarly(props) ==
    << FuncOpen("configure_deadline_database"),
       DefGetJsonVal,
       CaptureTracing,
       TracingOff,
       ExportLiteral("DB_CERT_FILE", DB_CERT_LOCATION),
       RestoreTracing,
       Retrieve("DB_CERT_PASSWORD", props.clientCertificate.passphrase, TRUE),
       FuncClose,
       ExportFunc("configure_deadline_database") >>

\* the commands addConnectionDBArgs adds after the download
MongoConnectionCommands(props) ==
    << FuncOpen("configure_deadline_database"),
       DefGetJsonVal,
       CaptureTracing,
       TracingOff,
       ExportLiteral("DB_CERT_FILE", DB_CERT_LOCATION),
       Retrieve("DB_CERT_PASSWORD", props.clientCertificate.passphrase, TRUE),
       RestoreTracing,
       FuncClose,
       ExportFunc("configure_deadline_database") >>

MongoAddInstallerDBArgs(conn, host) ==
    /\ calls < MaxCalls
    /\ IF osType(host) # LINUX
       THEN Throws("addInstallerDBArgs", "MongoDbInstance", <<host>>)
       ELSE LET after == downloadCertificate(conn.props, host)
            IN  /\ stackChildren' = after.stackChildren
                /\ userData' = addCommands(after.userData, host,
                                           MongoInstallerCommands(conn.props))
                /\ Returns("addInstallerDBArgs", "MongoDbInstance", <<host>>)
                /\ UNCHANGED << docdbConns, mongoConns, dependencies,
                                vpcSecurityGroupIds, mongoSecurityGroups,
                                annotations, grants, connectionRules >>

\* mutant: the certificate is downloaded before the host's osType is checked
MongoAddConnectionDBArgs_DownloadFirst(conn, host) ==
    /\ calls < MaxCalls
    /\ LET after == downloadCertificate(conn.props, host)
       IN  /\ stackChildren' = after.stackChildren
           /\ userData' = IF osType(host) # LINUX
                          THEN after.userData
                          ELSE addCommands(after.userData, host,
                                           MongoConnectionCommands(conn.props))
    /\ lastCall' = Call("addConnectionDBArgs", "MongoDbInstance", <<host>>,
                        osType(host) # LINUX)
    /\ calls' = calls + 1
    /\ UNCHANGED << docdbConns, mongoConns, dependencies, vpcSecurityGroupIds,
                    mongoSecurityGroups, annotations, grants, connectionRules >>

MongoAddConnectionDBArgs(conn, host) ==
    /\ calls < MaxCalls
    /\ IF osType(host) # LINUX
       THEN Throws("addConnectionDBArgs", "MongoDbInstance", <<host>>)
       ELSE LET after == downloadCertificate(conn.props, host)
            IN  /\ stackChildren' = after.stackChildren
                /\ userData' = addCommands(after.userData, host,
                                           MongoConnectionCommands(conn.props))
                /\ Returns("addConnectionDBArgs", "MongoDbInstance", <<host>>)
                /\ UNCHANGED << docdbConns, mongoConns, dependencies,
                                vpcSecurityGroupIds, mongoSecurityGroups,
                                annotations, grants, connectionRules >>

\* other.connections.allowTo(database, Port.tcp(database.port))
MongoAllowConnectionsFrom(conn, other) ==
    /\ calls < MaxCalls
    /\ connectionRules' = connectionRules \cup
           { [peer |-> other, database |-> conn.props.database.path,
              port |-> conn.props.database.port] }
    /\ Returns("allowConnectionsFrom", "MongoDbInstance", <<other>>)
    /\ UNCHANGED << docdbConns, mongoConns, userData, stackChildren, dependencies,
                    vpcSecurityGroupIds, mongoSecurityGroups, annotations, grants >>

\* mutant: only the certificate is granted, not its passphrase
MongoGrantRead_CertOnly(conn, grantee) ==
    /\ calls < MaxCalls
    /\ grants' = grants \cup
           { [secret |-> conn.props.clientCertificate.cert.secretArn,
              grantee |-> grantee] }
    /\ Returns("grantRead", "MongoDbInstance", <<grantee>>)
    /\ UNCHANGED << docdbConns, mongoConns, userData, stackChildren, dependencies,
                    vpcSecurityGroupIds, mongoSecurityGroups, annotations,
                    connectionRules >>

\* clientCertificate.cert.grantRead(grantee); clientCertificate.passphrase.grantRead(grantee)
MongoGrantRead(conn, grantee) ==
    /\ calls < MaxCalls
    /\ grants' = grants \cup
           { [secret |-> conn.props.clientCertificate.cert.secretArn,
              grantee |-> grantee],
             [secret |-> conn.props.clientCertificate.passphrase.secretArn,
              grantee |-> grantee] }
    /\ Returns("grantRead", "MongoDbInstance", <<grantee>>)
    /\ UNCHANGED << docdbConns, mongoConns, userData, stackChildren, dependencies,
                    vpcSecurityGroupIds, mongoSecurityGroups, annotations,
                    connectionRules >>

\* mutant: the edge is added without looking for the 'server' property
MongoAddChildDependency_Unconditional(conn, child) ==
    /\ calls < MaxCalls
    /\ dependencies' =
           Append(dependencies,
                  Dependency(child, AsgDefaultChild(conn.props.database)))
    /\ Returns("addChildDependency", "MongoDbInstance", <<child>>)
    /\ UNCHANGED << docdbConns, mongoConns, userData, stackChildren,
                    vpcSecurityGroupIds, mongoSecurityGroups, annotations,
                    grants, connectionRules >>

MongoAddChildDependency(conn, child) ==
    /\ calls < MaxCalls
    /\ dependencies' =
           IF conn.props.database.hasServer
           THEN Append(dependencies,
                       Dependency(child, AsgDefaultChild(conn.props.database)))
           ELSE dependencies
    /\ Returns("addChildDependency", "MongoDbInstance", <<child>>)
    /\ UNCHANGED << docdbConns, mongoConns, userData, stackChildren,
                    vpcSecurityGroupIds, mongoSecurityGroups, annotations,
                    grants, connectionRules >>

\* this.props.database.addSecurityGroup(...securityGroups)
MongoAddSecurityGroup(conn, securityGroups) ==
    /\ calls < MaxCalls
    /\ mongoSecurityGroups' = mongoSecurityGroups \o SecurityGroupIds(securityGroups)
    /\ Returns("addSecurityGroup", "MongoDbInstance", securityGroups)
    /\ UNCHANGED << docdbConns, mongoConns, userData, stackChildren, dependencies,
                    vpcSecurityGroupIds, annotations, grants, connectionRules >>

----------------------------------------------------------------------------
(* The configuration run: nothing is constructed at first; a connection of *)
(* each Variant is made once, and its operations are called in any order.  *)

DocDBOptions == { [database |-> db, login |-> LoginSecret] : db \in DocDBDatabases }

MongoDbInstanceOptions ==
    { [database |-> db, clientCertificate |-> ClientCertificate] :
          db \in MongoDatabases }

Init ==
    /\ docdbConns = {}
    /\ mongoConns = {}
    /\ userData = [h \in Hosts |-> <<>>]
    /\ stackChildren = [s \in Stacks |-> {}]
    /\ dependencies = <<>>
    /\ vpcSecurityGroupIds = Undefined
    /\ mongoSecurityGroups = <<>>
    /\ annotations = <<>>
    /\ grants = {}
    /\ connectionRules = {}
    /\ lastCall = Call("none", "none", <<>>, FALSE)
    /\ calls = 0

Next ==
    \/ \E options \in DocDBOptions : forDocDB(options)
    \/ \E options \in MongoDbInstanceOptions : forMongoDbInstance(options)
    \/ \E conn \in docdbConns, host \in Hosts : DocDBAddInstallerDBArgs(conn, host)
    \/ \E conn \in docdbConns, host \in Hosts : DocDBAddConnectionDBArgs(conn, host)
    \/ \E conn \in docdbConns, other \in Peers : DocDBAllowConnectionsFrom(conn, other)
    \/ \E conn \in docdbConns, grantee \in Grantees : DocDBGrantRead(conn, grantee)
    \/ \E conn \in docdbConns, child \in Children : DocDBAddChildDependency(conn, child)
    \/ \E conn \in docdbConns, securityGroups \in SecurityGroupArgs :
           DocDBAddSecurityGroup(conn, securityGroups)
    \/ \E conn \in mongoConns, host \in Hosts : MongoAddInstallerDBArgs(conn, host)
    \/ \E conn \in mongoConns, host \in Hosts : MongoAddConnectionDBArgs(conn, host)
    \/ \E conn \in mongoConns, other \in Peers : MongoAllowConnectionsFrom(conn, other)
    \/ \E conn \in mongoConns, grantee \in Grantees : MongoGrantRead(conn, grantee)
    \/ \E conn \in mongoConns, child \in Children : MongoAddChildDependency(conn, child)
    \/ \E conn \in mongoConns, securityGroups \in SecurityGroupArgs :
           MongoAddSecurityGroup(conn, securityGroups)

Spec == Init /\ [][Next]_vars

\* The DocumentDB constructor alone, over every engineVersion string
VersionedDocDBOptions ==
    { [database |-> db, login |-> LoginSecret] : db \in VersionedDocDBDatabases }

NextEngineVersion == \E options \in VersionedDocDBOptions : forDocDB(options)

SpecEngineVersion == Init /\ [][NextEngineVersion]_vars

----------------------------------------------------------------------------
(* Properties                                                              *)

ScriptOps == {"addInstallerDBArgs", "addConnectionDBArgs"}

\* the step is a call of op (an operation, not a constructor)
IsCall(ops) == calls' = calls + 1 /\ lastCall'.op \in ops

\* C1: for both Variants and both script-generation operations, a call with
\* a host that is not LINUX throws before anything is emitted: the userData
\* of every host is as before and no script asset is created or executed.
C1_UnsupportedHostFails ==
    [][ (IsCall(ScriptOps) /\ osType(lastCall'.arg[1]) # LINUX)
            => /\ lastCall'.threw
               /\ userData' = userData
               /\ stackChildren' = stackChildren ]_vars

C1_Witness ==
    /\ lastCall.op \in ScriptOps
    /\ lastCall.variant = "MongoDbInstance"
    /\ lastCall.arg = <<"hostW">>
    /\ lastCall.threw
    /\ \E h \in Hosts : userData[h] # <<>>

\* a cluster provisioned inline that exposes no child named 'Instance1'
InlineWithoutInstance1(database) ==
    /\ \E c \in database.children : c.id = "Resource"
    /\ ~ \E c \in database.children : c.id = "Instance1"

\* a cluster imported by reference: no instance child and no default child
ImportedDocDB(database) ==
    /\ ~ \E c \in database.children : c.id = "Resource"
    /\ ~ \E c \in database.children : c.id = "Instance1"

\* C2: DocumentDB addChildDependency on a cluster that has a default child
\* but no child 'Instance1' throws and adds no dependency edge.
C2_MissingInstanceIsFatal ==
    [][ ( /\ IsCall({"addChildDependency"})
          /\ lastCall'.variant = "DocDB"
          /\ \E conn \in docdbConns : InlineWithoutInstance1(conn.props.database) )
            => /\ lastCall'.threw
               /\ dependencies' = dependencies ]_vars

C2_Witness ==
    /\ lastCall.op = "addChildDependency"
    /\ lastCall.variant = "DocDB"
    /\ lastCall.threw
    /\ \E conn \in docdbConns : InlineWithoutInstance1(conn.props.database)

\* the backend of the Variant that made the last call was imported by reference
ImportedBackend(variant) ==
    \/ variant = "DocDB"
         /\ \E conn \in docdbConns : ImportedDocDB(conn.props.database)
    \/ variant = "MongoDbInstance"
         /\ \E conn \in mongoConns : ~conn.props.database.hasServer

\* C3: for either Variant, addChildDependency on an imported backend adds
\* no edge, throws nothing and adds no diagnostic, for any consumer and
\* however many calls were made; so while only imported backends are
\* connected there is no edge at all.
C3_ImportedIsNoOp ==
    /\ [][ (IsCall({"addChildDependency"}) /\ ImportedBackend(lastCall'.variant))
               => /\ ~lastCall'.threw
                  /\ dependencies' = dependencies
                  /\ annotations' = annotations ]_vars
    /\ []( ( /\ \A conn \in docdbConns : ImportedDocDB(conn.props.database)
             /\ \A conn \in mongoConns : ~conn.props.database.hasServer )
               => dependencies = <<>> )

C3_Witness ==
    /\ lastCall.op = "addChildDependency"
    /\ ~lastCall.threw
    /\ ImportedBackend(lastCall.variant)
    /\ calls = 2
    /\ dependencies = <<>>

\* the resource that serves data, for a backend provisioned inline
DataServingResource(variant) ==
    IF variant = "DocDB"
    THEN { conn.props.database.path \o <<"Instance1">> : conn \in
               { c \in docdbConns : \E i \in c.props.database.children : i.id = "Instance1" } }
    ELSE { conn.props.database.path \o <<"Server", "Asg", "ASG">> : conn \in
               { c \in mongoConns : c.props.database.hasServer } }

\* the cluster / database constructs themselves
OwningConstructs ==
    { conn.props.database.path : conn \in docdbConns \cup mongoConns }

\* C4: for a backend provisioned inline, every addChildDependency(child)
\* adds exactly one edge, from that child to the concrete data-serving
\* resource (DocumentDB: 'Instance1'; MongoDB: the default child of the
\* server's autoscaling group) and never to the cluster or database itself.
C4_OneEdgeToDataServingResource ==
    [][ (IsCall({"addChildDependency"}) /\ DataServingResource(lastCall'.variant) # {})
            => /\ ~lastCall'.threw
               /\ \E target \in DataServingResource(lastCall'.variant) :
                      /\ dependencies' =
                             Append(dependencies,
                                    [child |-> lastCall'.arg[1], target |-> target])
                      /\ target \notin OwningConstructs ]_vars

\* two consumers, two distinct edges, one target
C4_Witness ==
    /\ Len(dependencies) = 2
    /\ dependencies[1].child # dependencies[2].child
    /\ dependencies[1].target = dependencies[2].target
    /\ dependencies[1].target \in DataServingResource("DocDB")

\* the script assets of one operating-system kind, whatever their stack
ScriptAssetsOfKind(kind) ==
    UNION { { <<stack, c>> : c \in { a \in stackChildren[stack] : a.osType = kind } } :
                stack \in Stacks }

\* the script invocations in a host's userData
ScriptInvocations(host) ==
    { k \in 1..Len(userData[host]) : userData[host][k].op = "executeScript" }

\* C5 as stated: after any sequence of MongoDB addInstallerDBArgs /
\* addConnectionDBArgs calls there is at most one certificate-download
\* script resource per host operating-system kind.
C5_OnePerOsKind ==
    \A kind \in {LINUX, WINDOWS} : Cardinality(ScriptAssetsOfKind(kind)) <= 1

\* C5 amended: there is at most one certificate-download script resource
\* per stack and host operating-system kind; a later call for a host of the
\* same stack and kind creates nothing and runs the existing resource.
C5_OnePerStackAndOsKind ==
    /\ [](\A stack \in Stacks, kind \in {LINUX, WINDOWS} :
              Cardinality({ a \in stackChildren[stack] : a.osType = kind }) <= 1)
    /\ [][ ( /\ IsCall(ScriptOps)
             /\ lastCall'.variant = "MongoDbInstance"
             /\ ~lastCall'.threw
             /\ \E a \in stackChildren[StackOfHost(lastCall'.arg[1])] :
                    a.osType = osType(lastCall'.arg[1]) )
               => /\ stackChildren' = stackChildren
                  /\ LET host == lastCall'.arg[1]
                         ran == { userData'[host][k].script :
                                      k \in (Len(userData[host]) + 1)..Len(userData'[host]) }
                                  \ { <<>> }
                     IN  /\ ran # {}
                         /\ ran \subseteq { a.id : a \in stackChildren[StackOfHost(host)] } ]_vars

\* two downloads on hosts of one stack and kind, one script resource
C5_Witness ==
    /\ Cardinality(ScriptInvocations("hostA")) = 2
    /\ Cardinality(stackChildren["StackA"]) = 1

\* the engineVersion is of a supported major.minor: 3.6, 4.0 or 5.0, alone
\* or followed by '.' and a patch level
SupportedEngineVersion(version) ==
    \E mm \in { <<"3", ".", "6">>, <<"4", ".", "0">>, <<"5", ".", "0">> } :
        version = mm \/ StartsWith(version, mm \o <<".">>)

\* C6: constructing the DocumentDB Variant adds no diagnostic for an engine
\* version 3.6.x, 4.0.x or 5.0.x, exactly one for any other version string,
\* and none when the cluster was imported (no default child).
C6_VersionDiagnostic ==
    \A conn \in docdbConns :
        LET database == conn.props.database
        IN  IF \E c \in database.children : c.id = "Resource"
            THEN database.hasEngineVersion =>
                     IF SupportedEngineVersion(database.engineVersion)
                     THEN annotations = <<>>
                     ELSE Len(annotations) = 1
            ELSE annotations = <<>>

\* C7: DocumentDB addSecurityGroup on an imported cluster, or on a cluster
\* whose 'Resource' child is no CfnDBCluster, does not throw, attaches no
\* group and adds exactly one warning that lists the ids of all the groups
\* passed; when the groups are attached no warning is added.
C7_UnattachedGroupsWarning ==
    [][ (IsCall({"addSecurityGroup"}) /\ lastCall'.variant = "DocDB")
            => \A conn \in docdbConns :
                 LET database == conn.props.database
                     groups == lastCall'.arg
                     attachable ==
                         /\ database.instanceofDatabaseCluster
                         /\ \E c \in database.children :
                                c.id = "Resource" /\ c.type = "CfnDBCluster"
                 IN  /\ ~lastCall'.threw
                     /\ IF attachable
                        THEN annotations' = annotations
                        ELSE /\ vpcSecurityGroupIds' = vpcSecurityGroupIds
                             /\ Len(annotations') = Len(annotations) + 1
                             /\ SubSeq(annotations', 1, Len(annotations)) = annotations
                             /\ annotations'[Len(annotations')].level = "warning"
                             /\ annotations'[Len(annotations')].groups =
                                    [ i \in 1..Len(groups) |-> groups[i].nodeId ] ]_vars

C7_Witness ==
    /\ lastCall.op = "addSecurityGroup"
    /\ lastCall.variant = "DocDB"
    /\ \E conn \in docdbConns : ~conn.props.database.instanceofDatabaseCluster
    /\ annotations # <<>>
    /\ annotations[Len(annotations)].level = "warning"
    /\ annotations[Len(annotations)].groups = <<"SG1", "SG2">>
    /\ ~vpcSecurityGroupIds.defined

----------------------------------------------------------------------------
(* The generated shell functions, read back from a host's userData.        *)

\* where a function definition starts
FuncOpens(data) == { i \in 1..Len(data) : data[i].op = "funcOpen" }

\* the first 'export -f' at or after i (the end of data when there is none)
BlockEnd(data, i) ==
    LET exports == { j \in i..Len(data) : data[j].op = "exportFunc" }
    IN  IF exports = {} THEN Len(data)
        ELSE CHOOSE j \in exports : \A k \in exports : j <= k

\* the positions of the commands of one kind in i..j
Positions(data, i, j, op) == { k \in i..j : data[k].op = op }

\* the shell variables whose value a command expands
VarsRead(cmd) ==
    (IF cmd.op = "extract" THEN {cmd.from} ELSE {})
        \cup { cmd.entries[k].value : k \in { n \in DOMAIN cmd.entries : cmd.entries[n].ref } }
        \cup { cmd.args[k].value : k \in { n \in DOMAIN cmd.args : cmd.args[n].ref } }

\* the variables a function fills from a secret: those a retrieval sets and
\* those extracted from one of them
RetrievedVars(data, i, j) == { data[k].name : k \in Positions(data, i, j, "retrieve") }

ExtractedVars(data, i, j) ==
    LET retrieved == RetrievedVars(data, i, j)
    IN  { data[k].name : k \in { n \in Positions(data, i, j, "extract") :
                                     data[n].from \in retrieved } }

CredentialVars(data, i, j) == RetrievedVars(data, i, j) \cup ExtractedVars(data, i, j)

\* a command that reads a secret or names a secret-derived variable
TouchesSecret(cmd, secretVars) ==
    \/ cmd.op = "retrieve"
    \/ VarsRead(cmd) \cap secretVars # {}
    \/ cmd.op \in {"extract", "unset"} /\ cmd.name \in secretVars

\* the variables a function has set and not unset when it returns
DefinedAtReturn(data, i, j) ==
    { data[k].name : k \in { n \in i..j :
          /\ data[n].op \in {"retrieve", "extract", "assign", "setArray"}
          /\ ~ \E u \in (n + 1)..j :
                 data[u].op = "unset" /\ data[u].name = data[n].name } }

\* C8: in every generated shell function the order is: capture of the
\* tracing state, tracing off, then every secret retrieval and every command
\* that names a secret-derived variable, then the restore of tracing, then
\* the closing of the body, then the export of the function as the last
\* command; userData holds nothing but such functions and script invocations.
C8_SecretsOnlyWhileTracingOff ==
    \A host \in Hosts :
        LET data == userData[host]
            inFunction == UNION { i..BlockEnd(data, i) : i \in FuncOpens(data) }
        IN  /\ { k \in 1..Len(data) : data[k].op # "executeScript" } \subseteq inFunction
            /\ \A i \in FuncOpens(data) :
                   LET j == BlockEnd(data, i)
                       secretVars == CredentialVars(data, i, j)
                   IN  /\ data[j].op = "exportFunc"
                       /\ data[j].name = data[i].name
                       /\ Positions(data, i, j, "funcOpen") = {i}
                       /\ Positions(data, i, j, "funcClose") = {j - 1}
                       /\ Positions(data, i, j, "retrieve") # {}
                       /\ Cardinality(Positions(data, i, j, "captureTracing")) = 1
                       /\ Cardinality(Positions(data, i, j, "tracingOff")) = 1
                       /\ Cardinality(Positions(data, i, j, "restoreTracing")) = 1
                       /\ \A cap \in Positions(data, i, j, "captureTracing"),
                             off \in Positions(data, i, j, "tracingOff"),
                             res \in Positions(data, i, j, "restoreTracing") :
                              /\ i < cap /\ cap < off /\ off < res /\ res < j - 1
                              /\ \A k \in i..j :
                                     TouchesSecret(data[k], secretVars)
                                         => off < k /\ k < res

\* a host that holds a function of each Variant
C8_Witness ==
    \E host \in Hosts :
        LET data == userData[host]
        IN  /\ Cardinality(FuncOpens(data)) = 2
            /\ \E k \in 1..Len(data) : data[k].name = "DB_CERT_PASSWORD"
            /\ \E k \in 1..Len(data) : data[k].name = "SECRET_STRING"

\* the cleanup discipline of one function, for the credential variables in checked
CleanupDiscipline(data, i, j, checked) ==
    LET extractPositions == Positions(data, i, j, "extract")
        extracted == ExtractedVars(data, i, j)
        unsets == Positions(data, i, j, "unset")
        restores == Positions(data, i, j, "restoreTracing")
    IN  /\ \A blob \in { data[k].from : k \in extractPositions } :
               LET extracts == { k \in extractPositions : data[k].from = blob }
                   last == CHOOSE k \in extracts : \A n \in extracts : n <= k
               IN  /\ last < j
                   /\ data[last + 1].op = "unset"
                   /\ data[last + 1].name = blob
                   /\ \A k \in i..(last + 1) : VarsRead(data[k]) \cap extracted = {}
        /\ \A v \in checked :
               \E u \in unsets :
                   /\ data[u].name = v
                   /\ \A k \in i..j : v \in VarsRead(data[k]) => k < u
                   /\ \A res \in restores : u < res
        /\ DefinedAtReturn(data, i, j) \cap checked = {}

\* C9 as stated: in every generated function of both Variants the raw
\* secret blob variable is unset right after the sub-fields are extracted
\* and before any use of them, every credential variable is unset after its
\* use and before tracing is restored, and no credential variable the
\* function set is defined when it returns.
C9_CleanupInEveryFunction ==
    \A host \in Hosts :
        \A i \in FuncOpens(userData[host]) :
            LET j == BlockEnd(userData[host], i)
                credentials == CredentialVars(userData[host], i, j)
            IN  CleanupDiscipline(userData[host], i, j, credentials)

\* the MongoDB Variant's configure_deadline_database: it retrieves straight
\* into the exported DB_CERT_PASSWORD
ExportsCertPassword(data, i, j) ==
    /\ data[i].name = "configure_deadline_database"
    /\ \E k \in Positions(data, i, j, "retrieve") :
           data[k].name = "DB_CERT_PASSWORD" /\ data[k].export

\* C9 amended: the discipline holds in both DocumentDB functions and in the
\* MongoDB configure_database_installation_args; the MongoDB
\* configure_deadline_database sets one credential variable, the exported
\* DB_CERT_PASSWORD, and leaves it defined when it returns.
C9_CleanupExceptExportedCertPassword ==
    \A host \in Hosts :
        \A i \in FuncOpens(userData[host]) :
            LET data == userData[host]
                j == BlockEnd(data, i)
                credentials == CredentialVars(data, i, j)
            IN  IF ExportsCertPassword(data, i, j)
                THEN /\ credentials = {"DB_CERT_PASSWORD"}
                     /\ "DB_CERT_PASSWORD" \in DefinedAtReturn(data, i, j)
                ELSE /\ credentials # {}
                     /\ CleanupDiscipline(data, i, j, credentials)

\* a host that holds the DocumentDB configure_deadline_database and the
\* MongoDB configure_database_installation_args
C9_Witness ==
    \E host \in Hosts :
        LET data == userData[host]
        IN  /\ \E i \in FuncOpens(data) :
                   /\ data[i].name = "configure_deadline_database"
                   /\ "SECRET_STRING" \in RetrievedVars(data, i, BlockEnd(data, i))
            /\ \E i \in FuncOpens(data) :
                   /\ data[i].name = "configure_database_installation_args"
                   /\ "CERT_PASSWORD" \in RetrievedVars(data, i, BlockEnd(data, i))

\* the certificate paths a function refers to
CertPathsReferenced(data, i, j) ==
    UNION { { data[k].entries[n].value :
                  n \in { m \in DOMAIN data[k].entries :
                              data[k].entries[m].key = "--dbclientcert" } } :
                k \in Positions(data, i, j, "setArray") }
        \cup { data[k].args[1].value :
                   k \in { n \in Positions(data, i, j, "assign") :
                               data[n].name = "DB_CERT_FILE" } }

\* a function the MongoDB Variant generated: it retrieves the passphrase of
\* a MongoDB connection's client certificate
IsMongoFunction(data, i, j) ==
    \E conn \in mongoConns, k \in Positions(data, i, j, "retrieve") :
        data[k].secret = conn.props.clientCertificate.passphrase.secretArn

\* C10: in every host's userData each function the MongoDB Variant emitted
\* comes right after an invocation of the certificate-download script of the
\* host's stack, which writes the client certificate secret to
\* /opt/Thinkbox/certs/mongo_client.pfx, the one path the function refers to.
C10_CertificateDownloadedFirst ==
    \A host \in Hosts :
        \A i \in FuncOpens(userData[host]) :
            LET data == userData[host]
                j == BlockEnd(data, i)
            IN  IsMongoFunction(data, i, j) =>
                    /\ i > 1
                    /\ data[i - 1].op = "executeScript"
                    /\ data[i - 1].script \in
                           { a.id : a \in stackChildren[StackOfHost(host)] }
                    /\ \E conn \in mongoConns :
                           data[i - 1].args =
                               << Lit(conn.props.clientCertificate.cert.secretArn),
                                  Lit("/opt/Thinkbox/certs/mongo_client.pfx") >>
                    /\ CertPathsReferenced(data, i, j) = { data[i - 1].args[2].value }

\* a host that holds both functions of the MongoDB Variant
C10_Witness ==
    \E host \in Hosts :
        LET data == userData[host]
        IN  /\ \E i \in FuncOpens(data) :
                   /\ data[i].name = "configure_database_installation_args"
                   /\ IsMongoFunction(data, i, BlockEnd(data, i))
            /\ \E i \in FuncOpens(data) :
                   /\ data[i].name = "configure_deadline_database"
                   /\ IsMongoFunction(data, i, BlockEnd(data, i))

\* the keys whose values come from a secret
SecretBearingKeys == {"--dbuser", "--dbpassword", "--dbcertpass"}

\* the INSTALLER_DB_ARGS assignments of a function
InstallerArrays(data, i, j) ==
    { k \in Positions(data, i, j, "setArray") : data[k].name = "INSTALLER_DB_ARGS" }

\* the entry of an array under a key, as a set (none, one or more)
EntriesUnder(entries, key) ==
    { entries[n] : n \in { m \in DOMAIN entries : entries[m].key = key } }

\* C11: every configure_database_installation_args assigns INSTALLER_DB_ARGS
\* once; its keys are exactly --dbuser, --dbpassword, --dbhost, --dbport,
\* --dbtype with --dbtype=DocumentDB for the DocumentDB Variant, and exactly
\* --dbssl, --dbauth, --dbsslauth, --dbhost, --dbport, --dbclientcert,
\* --dbcertpass with the three flags true for the MongoDB Variant; the values
\* of --dbuser, --dbpassword and --dbcertpass are references to shell
\* variables the function filled from a secret, never literals.
C11_InstallerArgs ==
    \A host \in Hosts :
        \A i \in { f \in FuncOpens(userData[host]) :
                       userData[host][f].name = "configure_database_installation_args" } :
            LET data == userData[host]
                j == BlockEnd(data, i)
                arrays == InstallerArrays(data, i, j)
                credentials == CredentialVars(data, i, j)
            IN  /\ Cardinality(arrays) = 1
                /\ \A k \in arrays :
                       LET entries == data[k].entries
                           keys == { entries[n].key : n \in DOMAIN entries }
                       IN  /\ Cardinality(keys) = Len(entries)
                           /\ IF IsMongoFunction(data, i, j)
                              THEN /\ keys = { "--dbssl", "--dbauth", "--dbsslauth",
                                               "--dbhost", "--dbport",
                                               "--dbclientcert", "--dbcertpass" }
                                   /\ \A flag \in {"--dbssl", "--dbauth", "--dbsslauth"} :
                                          EntriesUnder(entries, flag) =
                                              { [key |-> flag, ref |-> FALSE,
                                                 value |-> "true"] }
                              ELSE /\ keys = { "--dbuser", "--dbpassword", "--dbhost",
                                               "--dbport", "--dbtype" }
                                   /\ EntriesUnder(entries, "--dbtype") =
                                          { [key |-> "--dbtype", ref |-> FALSE,
                                             value |-> "DocumentDB"] }
                           /\ \A n \in DOMAIN entries :
                                  entries[n].key \in SecretBearingKeys
                                      => /\ entries[n].ref
                                         /\ entries[n].value \in credentials

\* a host that holds the installer function of each Variant
C11_Witness ==
    \E host \in Hosts :
        LET data == userData[host]
            installers == { f \in FuncOpens(data) :
                                data[f].name = "configure_database_installation_args" }
        IN  /\ \E i \in installers : IsMongoFunction(data, i, BlockEnd(data, i))
            /\ \E i \in installers : ~IsMongoFunction(data, i, BlockEnd(data, i))

\* a step leaves every connection object that exists as it is: its options,
\* its containerEnvironment and its databaseConstruct
ContractUnchanged ==
    /\ docdbConns # {} => docdbConns' = docdbConns
    /\ mongoConns # {} => mongoConns' = mongoConns

\* the backend of a connection was provisioned by this graph
ProvisionedDocDB(conn) == conn.props.database.instanceofDatabaseCluster
ProvisionedMongoDb(conn) == conn.props.database.instanceofMongoDbInstance

\* C12 as stated: for both Variants databaseConstruct is set when the backend
\* was provisioned by this graph and is absent exactly when the backend was
\* imported by reference; no later operation changes it or
\* containerEnvironment.
C12_AbsentExactlyWhenImported ==
    /\ [] /\ \A conn \in docdbConns :
                 conn.databaseConstruct = NoConstruct <=> ~ProvisionedDocDB(conn)
          /\ \A conn \in mongoConns :
                 conn.databaseConstruct = NoConstruct <=> ~ProvisionedMongoDb(conn)
    /\ [][ContractUnchanged]_vars

\* C12, amended: for DocumentDB databaseConstruct is the cluster when it was
\* provisioned by this graph and absent exactly when it was imported; for
\* MongoDB it is the data volume of the instance when the instance was
\* provisioned by this graph and its data volume is a Volume of this graph,
\* and absent when the instance was imported or its data volume was; no
\* later operation changes it or containerEnvironment.
C12_ConstructFixedAtConstruction ==
    /\ [] /\ \A conn \in docdbConns :
                 conn.databaseConstruct =
                     IF ProvisionedDocDB(conn)
                     THEN conn.props.database.path
                     ELSE NoConstruct
          /\ \A conn \in mongoConns :
                 conn.databaseConstruct =
                     IF ProvisionedMongoDb(conn) /\ conn.props.database.volumeIsVolume
                     THEN MongoDataVolume(conn.props.database)
                     ELSE NoConstruct
    /\ [][ContractUnchanged]_vars

\* a provisioned instance on an imported data volume, and a provisioned
\* cluster, after two operations have been called
C12_Witness ==
    /\ calls = 2
    /\ \E conn \in mongoConns :
           /\ conn.props.database = InlineMongoDbImportedVolume
           /\ conn.databaseConstruct = NoConstruct
    /\ \E conn \in docdbConns :
           /\ ProvisionedDocDB(conn)
           /\ conn.databaseConstruct = conn.props.database.path

\* the secrets a connection of the given Variant depends on
SecretsOf(variant) ==
    IF variant = "DocDB"
    THEN { conn.props.login.secretArn : conn \in docdbConns }
    ELSE UNION { { conn.props.clientCertificate.cert.secretArn,
                   conn.props.clientCertificate.passphrase.secretArn } :
                 conn \in mongoConns }

\* C13: grantRead(grantee) returns and grants the grantee read access to
\* exactly the secrets of the Variant, one (the login) for DocumentDB and two
\* (the certificate and its passphrase) for MongoDB, and to nothing else; it
\* adds no command, no script resource, no dependency edge, no network rule,
\* no security group and no diagnostic.
C13_GrantReadExactlyItsSecrets ==
    [][ IsCall({"grantRead"})
            => LET secrets == SecretsOf(lastCall'.variant)
               IN  /\ ~lastCall'.threw
                   /\ Cardinality(secrets) =
                          IF lastCall'.variant = "DocDB" THEN 1 ELSE 2
                   /\ grants' = grants \cup
                          { [secret |-> s, grantee |-> lastCall'.arg[1]] :
                            s \in secrets }
                   /\ userData' = userData
                   /\ stackChildren' = stackChildren
                   /\ dependencies' = dependencies
                   /\ connectionRules' = connectionRules
                   /\ vpcSecurityGroupIds' = vpcSecurityGroupIds
                   /\ mongoSecurityGroups' = mongoSecurityGroups
                   /\ annotations' = annotations ]_vars

\* grantRead has been called on a connection of each Variant
C13_Witness ==
    /\ lastCall.op = "grantRead"
    /\ ~lastCall.threw
    /\ grants = { [secret |-> s, grantee |-> lastCall.arg[1]] :
                  s \in SecretsOf("DocDB") \cup SecretsOf("MongoDbInstance") }
    /\ Cardinality(grants) = 3

\* the connection's cluster was provisioned inline and exposes the
\* CfnDBCluster that holds the attached security-group list
HasAttachedList(conn) ==
    /\ conn.props.database.instanceofDatabaseCluster
    /\ \E r \in tryFindChild(conn.props.database, "Resource") : r.type = "CfnDBCluster"

\* C14: on an inline-provisioned DocumentDB cluster the attached
\* security-group list is append-only: after each addSecurityGroup call it is
\* what it was before the call (empty if it was undefined), followed by the
\* securityGroupId of each group of the call in argument order.
C14_SecurityGroupsAppendOnly ==
    [][ ( /\ IsCall({"addSecurityGroup"})
          /\ lastCall'.variant = "DocDB"
          /\ \A conn \in docdbConns : HasAttachedList(conn) )
            => LET groups == lastCall'.arg
                   before == IF vpcSecurityGroupIds.defined
                             THEN vpcSecurityGroupIds.ids
                             ELSE <<>>
               IN  /\ ~lastCall'.threw
                   /\ vpcSecurityGroupIds'.defined
                   /\ vpcSecurityGroupIds'.ids =
                          before \o [ n \in 1..Len(groups) |-> groups[n].securityGroupId ]
                   /\ annotations' = annotations ]_vars

\* two calls on a cluster whose list started undefined: the first makes the
\* list, the second keeps its group and adds two more
C14_Witness ==
    /\ calls = 2
    /\ lastCall.op = "addSecurityGroup"
    /\ lastCall.variant = "DocDB"
    /\ lastCall.arg = <<SG2, SG1>>
    /\ \E conn \in docdbConns :
           /\ HasAttachedList(conn)
           /\ ~conn.props.database.vpcSecurityGroupIds.defined
    /\ vpcSecurityGroupIds =
           Defined(<< SG1.securityGroupId, SG2.securityGroupId, SG1.securityGroupId >>)

====
